---- MODULE Spec2Model ----
(***************************************************************************)
(* Model of scripts/jebio/jebio.py: the JEB.IO client library (getApikey,  *)
(* check, download, upload) and its command-line batch front end.          *)
(*                                                                         *)
(* Strings are sequences of one-character strings.  The remote service,    *)
(* the requests library and the zipfile library are the environment: each  *)
(* request the code issues is answered by an outcome drawn from a bounded  *)
(* set.  Python's None is [has |-> FALSE]; a returned value, a raised      *)
(* exception and a JSON value are tagged records.                          *)
(***************************************************************************)
EXTENDS Naturals, Sequences, FiniteSets, TLC

VARIABLES
  APIKEY,     \* the module global APIKEY
  environ,    \* os.environ restricted to JEBIO_APIKEY
  fs,         \* regular files of the working directory: path -> content
  net,        \* HTTP requests issued by the last library call, in order
  ret,        \* outcome of the last library call
  call,       \* the last library call: its arguments and the answers it consumed
  fsBefore,   \* fs when the last library call started
  ncalls,     \* number of library calls made so far
  pc,         \* position of the command-line script
  action,     \* sys.argv[1].lower()
  opts,       \* getopt's option list
  args,       \* getopt's positional arguments
  extract,    \* the script's extract flag
  hlist,      \* the script's list of entries
  idx,        \* number of entries the batch loop has taken
  attempted,  \* entries the batch loop has attempted, in order
  logged      \* positions of the entries whose stack trace went to standard error

vars == <<APIKEY, environ, fs, net, ret, call, fsBefore, ncalls,
          pc, action, opts, args, extract, hlist, idx, attempted, logged>>

libvars == <<APIKEY, environ, fs, net, ret, call, fsBefore, ncalls>>
clivars == <<pc, action, opts, args, extract, hlist, idx, attempted, logged>>

----------------------------------------------------------------------------
(* Bounds *)

MaxCalls == 1        \* fresh library calls in one behaviour
MaxMembers == 2      \* members of a served archive
MaxLines == 2        \* lines of the list file

----------------------------------------------------------------------------
(* Python values *)

None == [has |-> FALSE]
Some(v) == [has |-> TRUE, v |-> v]

\* '%s' % x for a string or None
Str(x) == IF x.has THEN x.v ELSE <<"N", "o", "n", "e">>

LowerChar(c) ==
  CASE c = "A" -> "a"
    [] c = "B" -> "b"
    [] c = "C" -> "c"
    [] OTHER -> c

\* str.lower
Lower(s) == [i \in DOMAIN s |-> LowerChar(s[i])]

RetNone == [tag |-> "None"]
RetPath(p) == [tag |-> "path", path |-> p]
RetJson(j) == [tag |-> "json", val |-> j]
RetStr(s) == [tag |-> "str", v |-> s]
Raise(e) == [tag |-> "raise", err |-> e]

\* JSON values: null, or an object (a record whose domain is its key set)
JNull == [null |-> TRUE]
JObj(o) == [null |-> FALSE, obj |-> o]
EmptyDict == [k \in {} |-> 0]

\* Python truth value of a decoded JSON value
Truthy(j) == ~j.null /\ DOMAIN j.obj # {}

----------------------------------------------------------------------------
(* File contents *)

Raw(d) == [kind |-> "raw", data |-> d]
Text(ls) == [kind |-> "text", lines |-> ls]
Zip(ms) == [kind |-> "zip", members |-> ms]
Member(n, d) == [name |-> n, data |-> d]

\* hashlib.sha256(content).hexdigest(): lowercase hex, distinct for the
\* contents "c1" and "c2"
sha256(content) ==
  CASE content = Raw("c1") -> <<"a">>
    [] content = Raw("c2") -> <<"b">>
    [] OTHER -> <<"f">>

isfile(files, p) == p \in DOMAIN files

\* open(p, 'wb').write(c)
WriteFile(files, p, c) ==
  [q \in DOMAIN files \cup {p} |-> IF q = p THEN c ELSE files[q]]

\* os.unlink(p)
Unlink(files, p) == [q \in DOMAIN files \ {p} |-> files[q]]

NoFiles == [q \in {} |-> Raw("")]

----------------------------------------------------------------------------
(* The environment: what the service, requests and the caller can supply *)

\* the URL prefix; it is only ever copied, so it is kept as one string
BASE == "https://www.pnfsoftware.com/io/api"

ZIP == <<".", "z", "i", "p">>

Hashes == {<<>>, <<"b">>}
ApikeyArgs == {<<>>, <<"k">>}
Environs == {[k \in {} |-> <<>>],
             [JEBIO_APIKEY |-> <<>>],
             [JEBIO_APIKEY |-> <<"e">>]}
Defaults == {<<>>, <<"g">>}

\* no answer: the request was never issued
NotIssued == [tag |-> "none", err |-> "NoResponse"]

\* requests.get(...) raising, r.json() raising, or the decoded body
CheckOutcomes ==
  {Raise("ConnectionError"), Raise("JSONDecodeError"),
   RetJson(JNull), RetJson(JObj(EmptyDict)),
   RetJson(JObj([code |-> 1])),
   RetJson(JObj([sha256hash |-> <<"a">>])),
   RetJson(JObj([code |-> 0]))}
  \cup {RetJson(JObj([code |-> 0, sha256hash |-> s])) :
          s \in {<<>>, <<"a">>, <<"A">>}}

MemberNames == {<<"x">>, <<"/", "y">>, <<"a">> \o ZIP}

\* sequences over S of length at most n, without repetition
SeqsUpTo(S, n) ==
  UNION {{s \in [1..m -> S] : \A i, j \in 1..m : s[i] = s[j] => i = j} :
           m \in 0..n}

\* the archives the service may serve: members with distinct names
Archives ==
  {Zip([i \in DOMAIN ns |-> Member(ns[i], Raw("m"))]) :
     ns \in SeqsUpTo(MemberNames, MaxMembers)}

Resp(ok, content) == [tag |-> "resp", ok |-> ok, content |-> content]

\* requests.get(...) raising, or a response with its ok flag and body
DlOutcomes ==
  {Raise("ConnectionError"), Resp(FALSE, Raw("c1")), Resp(FALSE, Raw("")),
   Resp(TRUE, Raw("")), Resp(TRUE, Raw("c1"))}
  \cup {Resp(TRUE, z) : z \in Archives}

UploadOutcomes ==
  {Raise("ConnectionError"), Raise("JSONDecodeError"),
   RetJson(JObj([code |-> 0]))}

InitFileSystems ==
  {NoFiles,
   [q \in {<<"a">>} |-> Raw("c1")],
   [q \in {<<"a">>} |-> Raw("c2")],
   [q \in {<<"A">>, <<"x">>} |-> Raw("c1")],
   [q \in {<<"a">> \o ZIP} |-> Raw("c2")]}

CheckReq(key, h) ==
  [method |-> "GET", base |-> BASE, endpoint |-> "file/check",
   apikey |-> key, h |-> h]
DownloadReq(key, h) ==
  [method |-> "GET", base |-> BASE, endpoint |-> "file/download",
   apikey |-> key, h |-> h]
UploadReq(key, content) ==
  [method |-> "POST", base |-> BASE, endpoint |-> "file/upload",
   apikey |-> key, ufile |-> content]

----------------------------------------------------------------------------
(* The library *)

getApikey(apikey, env, dflt) ==
  IF apikey # <<>> THEN [ok |-> TRUE, key |-> apikey]
  ELSE IF "JEBIO_APIKEY" \in DOMAIN env
    THEN [ok |-> TRUE, key |-> env.JEBIO_APIKEY]
  ELSE IF dflt # <<>> THEN [ok |-> TRUE, key |-> dflt]
  ELSE [ok |-> FALSE, key |-> <<>>]   \* raise '...': a TypeError

check(h, apikey, env, dflt, chk) ==
  LET k == getApikey(apikey, env, dflt) IN
  IF ~k.ok THEN [ret |-> Raise("TypeError"), net |-> <<>>]
  ELSE IF chk.tag = "json"
    THEN [ret |-> chk, net |-> <<CheckReq(k.key, h)>>]
  ELSE [ret |-> Raise(chk.err), net |-> <<CheckReq(k.key, h)>>]

\* the path ZipFile.extract writes a member to: the leading '/' is dropped
RECURSIVE Target(_)
Target(name) ==
  IF name # <<>> /\ Head(name) = "/" THEN Target(Tail(name)) ELSE name

\* ZipFile.extractall
RECURSIVE extractall(_, _)
extractall(files, ms) ==
  IF ms = <<>> THEN files
  ELSE extractall(WriteFile(files, Target(Head(ms).name), Head(ms).data),
                  Tail(ms))

\* lines 83-90: the extract branch, on the archive just saved at outpath
Extract(files, outpath, net0) ==
  IF files[outpath].kind # "zip"
    THEN [ret |-> Raise("BadZipFile"), net |-> net0, fs |-> files]
  ELSE LET ms == files[outpath].members
           f2 == extractall(files, ms)
       IN IF ms = <<>>
            THEN [ret |-> Raise("IndexError"), net |-> net0, fs |-> f2]
          ELSE [ret |-> RetPath(ms[1].name), net |-> net0,
                fs |-> Unlink(f2, outpath)]

\* a slip: the digests are compared as they are, case included
AlreadyDownloaded_CaseSensitive(files, h0) ==
  /\ h0.has
  /\ h0.v # <<>>
  /\ isfile(files, h0.v)
  /\ sha256(files[h0.v]) = h0.v

\* lines 55-63: the canonical file is already present with matching content
AlreadyDownloaded(files, h0) ==
  /\ h0.has
  /\ h0.v # <<>>
  /\ isfile(files, h0.v)
  /\ Lower(sha256(files[h0.v])) = Lower(h0.v)

\* a slip: the status of the response is not looked at
Unusable_IgnoresStatus(dl) == dl.content = Raw("")

\* line 68: not r or not r.ok or not r.content (bool(r) is r.ok)
Unusable(dl) == ~dl.ok \/ dl.content = Raw("")

\* lines 65-92: the download request and what follows it
Fetch(h0, apikey, ext, env, dflt, files, net0, dl) ==
  LET k == getApikey(apikey, env, dflt) IN
  IF ~k.ok THEN [ret |-> Raise("TypeError"), net |-> net0, fs |-> files]
  ELSE
  LET n == Append(net0, DownloadReq(k.key, Str(h0))) IN
  IF dl.tag # "resp" THEN [ret |-> Raise(dl.err), net |-> n, fs |-> files]
  ELSE IF Unusable(dl) THEN [ret |-> RetNone, net |-> n, fs |-> files]
  ELSE IF ~h0.has
    THEN [ret |-> Raise("TypeError"), net |-> n, fs |-> files]  \* None + '.zip'
  ELSE
  LET outpath == h0.v \o ZIP
      f1 == WriteFile(files, outpath, dl.content)
  IN IF ext THEN Extract(f1, outpath, n)
     ELSE [ret |-> RetPath(outpath), net |-> n, fs |-> f1]

\* a slip: the code of the check result is not looked at
CheckVerdict_IgnoresCode(r) == IF ~Truthy(r) THEN "notfound" ELSE "found"

\* line 51: not r or r['code'] != 0, which raises KeyError on a non-empty
\* object without a code
CheckVerdict(r) ==
  IF ~Truthy(r) THEN "notfound"
  ELSE IF "code" \notin DOMAIN r.obj THEN "KeyError"
  ELSE IF r.obj.code # 0 THEN "notfound"
  ELSE "found"

\* line 55: r.get('sha256hash')
CanonicalHash(r) ==
  IF "sha256hash" \in DOMAIN r.obj THEN Some(r.obj.sha256hash) ELSE None

download(h, apikey, ext, env, dflt, files, chk, dl) ==
  IF h = <<>> THEN [ret |-> Raise("TypeError"), net |-> <<>>, fs |-> files]
  ELSE
  LET c == check(h, apikey, env, dflt, chk) IN
  IF c.ret.tag = "raise" THEN [ret |-> c.ret, net |-> c.net, fs |-> files]
  ELSE
  LET r == c.ret.val
      v == CheckVerdict(r)
  IN
  IF v = "notfound" THEN [ret |-> RetNone, net |-> c.net, fs |-> files]
  ELSE IF v = "KeyError"
    THEN [ret |-> Raise("KeyError"), net |-> c.net, fs |-> files]
  ELSE
  LET h0 == CanonicalHash(r)
  IN IF AlreadyDownloaded(files, h0)
       THEN [ret |-> RetPath(h0.v), net |-> c.net, fs |-> files]
     ELSE Fetch(h0, apikey, ext, env, dflt, files, c.net, dl)

upload(filepath, apikey, env, dflt, files, up) ==
  LET k == getApikey(apikey, env, dflt) IN
  IF ~k.ok THEN [ret |-> Raise("TypeError"), net |-> <<>>, fs |-> files]
  ELSE IF ~isfile(files, filepath)
    THEN [ret |-> Raise("FileNotFoundError"), net |-> <<>>, fs |-> files]
  ELSE
  LET n == <<UploadReq(k.key, files[filepath])>> IN
  IF up.tag = "json" THEN [ret |-> up, net |-> n, fs |-> files]
  ELSE [ret |-> Raise(up.err), net |-> n, fs |-> files]

----------------------------------------------------------------------------
(* Library calls made by a program that imports the module *)

NoCall == [op |-> "none"]

\* the command-line script is not running
CliIdle ==
  /\ pc = "idle"
  /\ action = <<>>
  /\ opts = <<>>
  /\ args = <<>>
  /\ extract = FALSE
  /\ hlist = <<>>
  /\ idx = 0
  /\ attempted = <<>>
  /\ logged = <<>>

Start(envs, dflts, fss) ==
  /\ APIKEY \in dflts
  /\ environ \in envs
  /\ fs \in fss
  /\ net = <<>>
  /\ ret = RetNone
  /\ call = NoCall
  /\ fsBefore = fs
  /\ ncalls = 0
  /\ CliIdle

\* the download claims: no key but the one the caller passes
Init == Start({[k \in {} |-> <<>>]}, {<<>>}, InitFileSystems)

\* the credential claims: every state of the environment and the default
InitCred == Start(Environs, Defaults, {[q \in {<<"a">>} |-> Raw("c1")]})

Record(c, out) ==
  /\ call' = c
  /\ ret' = out.ret
  /\ net' = out.net
  /\ fsBefore' = fs
  /\ fs' = out.fs
  /\ ncalls' = ncalls + 1
  /\ UNCHANGED <<APIKEY, environ>>

CallGetApikey ==
  /\ ncalls < MaxCalls
  /\ \E k \in ApikeyArgs :
       LET g == getApikey(k, environ, APIKEY) IN
       Record([op |-> "getApikey", apikey |-> k],
              [ret |-> IF g.ok THEN RetStr(g.key) ELSE Raise("TypeError"),
               net |-> <<>>, fs |-> fs])
  /\ UNCHANGED clivars

CallCheck ==
  /\ ncalls < MaxCalls
  /\ \E h \in Hashes, k \in ApikeyArgs, chk \in CheckOutcomes \cup {NotIssued} :
       LET out == check(h, k, environ, APIKEY, chk) IN
       /\ (chk = NotIssued) <=> (out.net = <<>>)
       /\ Record([op |-> "check", h |-> h, apikey |-> k, chk |-> chk],
                 [ret |-> out.ret, net |-> out.net, fs |-> fs])
  /\ UNCHANGED clivars

CallDownload ==
  /\ ncalls < MaxCalls
  /\ \E h \in Hashes, k \in ApikeyArgs, x \in BOOLEAN,
        chk \in CheckOutcomes \cup {NotIssued},
        dl \in DlOutcomes \cup {NotIssued} :
       LET out == download(h, k, x, environ, APIKEY, fs, chk, dl) IN
       /\ (chk = NotIssued) <=> (out.net = <<>>)
       /\ (dl = NotIssued) <=> (Len(out.net) < 2)
       /\ Record([op |-> "download", h |-> h, apikey |-> k, extract |-> x,
                  chk |-> chk, dl |-> dl, again |-> FALSE], out)
  /\ UNCHANGED clivars

\* the caller repeats its download call; the service answers the requests
\* it answered before as it did before
RepeatDownload ==
  /\ ncalls \in 1..MaxCalls
  /\ call.op = "download"
  /\ \E chk \in CheckOutcomes \cup {NotIssued},
        dl \in DlOutcomes \cup {NotIssued} :
       LET out == download(call.h, call.apikey, call.extract, environ, APIKEY,
                           fs, chk, dl)
       IN
       /\ call.chk # NotIssued => chk = call.chk
       /\ call.dl # NotIssued => dl = call.dl
       /\ (chk = NotIssued) <=> (out.net = <<>>)
       /\ (dl = NotIssued) <=> (Len(out.net) < 2)
       /\ Record([call EXCEPT !.chk = chk, !.dl = dl, !.again = TRUE], out)
  /\ UNCHANGED clivars

CallUpload ==
  /\ ncalls < MaxCalls
  /\ \E p \in {<<"a">>, <<"n">>}, k \in ApikeyArgs,
        up \in UploadOutcomes \cup {NotIssued} :
       LET out == upload(p, k, environ, APIKEY, fs, up) IN
       /\ (up = NotIssued) <=> (out.net = <<>>)
       /\ Record([op |-> "upload", filepath |-> p, apikey |-> k, up |-> up], out)
  /\ UNCHANGED clivars

Next ==
  \/ CallGetApikey
  \/ CallCheck
  \/ CallDownload
  \/ RepeatDownload
  \/ CallUpload

Spec == Init /\ [][Next]_vars

SpecCred == InitCred /\ [][Next]_vars

----------------------------------------------------------------------------
(* The command-line script, lines 118-184 *)

Range(q) == {q[i] : i \in DOMAIN q}

IsSpace(c) == c \in {" ", "\n", "\t"}

RECURSIVE lstrip(_)
lstrip(l) == IF l # <<>> /\ IsSpace(Head(l)) THEN lstrip(Tail(l)) ELSE l

RECURSIVE rstrip(_)
rstrip(l) ==
  IF l # <<>> /\ IsSpace(l[Len(l)]) THEN rstrip(SubSeq(l, 1, Len(l) - 1)) ELSE l

\* str.strip
strip(l) == rstrip(lstrip(l))

\* a slip: comment lines are kept
IsEntryLine_KeepsComments(l) == l # <<>>

\* line 143: the stripped line is not blank and does not start with '#'
IsEntryLine(l) == l # <<>> /\ Head(l) # "#"

\* lines 141-144: the entries a list file contributes, in file order
FileEntries(ls) ==
  SelectSeq([i \in DOMAIN ls |-> strip(ls[i])], IsEntryLine)

\* str.split(','): the pieces between commas, empty pieces included
RECURSIVE split(_, _)
split(str, piece) ==
  IF str = <<>> THEN <<piece>>
  ELSE IF Head(str) = "," THEN <<piece>> \o split(Tail(str), <<>>)
  ELSE split(Tail(str), Append(piece, Head(str)))

\* lines 148-149: hlist.extend(arg.split(',')) for each positional argument
RECURSIVE ArgEntries(_)
ArgEntries(as) ==
  IF as = <<>> THEN <<>> ELSE split(Head(as), <<>>) \o ArgEntries(Tail(as))

\* lines 131-146: the option loop; open(a) raises when the list file is missing
RECURSIVE ParseOpts(_, _, _)
ParseOpts(os, files, acc) ==
  IF os = <<>> THEN acc
  ELSE LET o == Head(os) IN
    IF o.o = "-v" THEN ParseOpts(Tail(os), files, acc)
    ELSE IF o.o = "-x"
      THEN ParseOpts(Tail(os), files, [acc EXCEPT !.extract = TRUE])
    ELSE IF ~isfile(files, o.a) THEN [acc EXCEPT !.crashed = TRUE]
    ELSE ParseOpts(Tail(os), files,
                   [acc EXCEPT !.hlist = @ \o FileEntries(files[o.a].lines)])

\* line 151: list(set(hlist)); the order of the result is not determined
Deduplicated(l) ==
  {q \in [1..Cardinality(Range(l)) -> Range(l)] : Range(q) = Range(l)}

Modes == {<<"c", "h", "e", "c", "k">>,
          <<"d", "o", "w", "n", "l", "o", "a", "d">>,
          <<"u", "p", "l", "o", "a", "d">>}

\* a slip: only the transport's and the decoder's exceptions are caught
Caught_TransportOnly(r) ==
  r.tag = "raise" /\ r.err \in {"ConnectionError", "JSONDecodeError"}

\* lines 162, 175, 181: except Exception catches what the three operations raise
Caught(r) == r.tag = "raise"

\* the answers the service gives the script's requests
CliCheckOutcomes ==
  {Raise("ConnectionError"), Raise("JSONDecodeError"),
   RetJson(JObj([code |-> 1])),
   RetJson(JObj([code |-> 0, sha256hash |-> <<"a">>]))}

CliDlOutcomes ==
  {Raise("ConnectionError"), Resp(FALSE, Raw("c1")),
   Resp(TRUE, Zip(<<Member(<<"x">>, Raw("m"))>>))}

\* the script has been started: sys.argv[1] is act, getopt gave os and as
StartCli(acts, optLists, argLists, envs, fss) ==
  /\ APIKEY = <<>>
  /\ environ \in envs
  /\ fs \in fss
  /\ net = <<>>
  /\ ret = RetNone
  /\ call = NoCall
  /\ fsBefore = fs
  /\ ncalls = 0
  /\ pc = "start"
  /\ action \in acts
  /\ opts \in optLists
  /\ args \in argLists
  /\ extract = FALSE
  /\ hlist = <<>>
  /\ idx = 0
  /\ attempted = <<>>
  /\ logged = <<>>

\* lines 124-156
ParseArgs ==
  /\ pc = "start"
  /\ LET acc == ParseOpts(opts, fs,
                          [crashed |-> FALSE, extract |-> FALSE, hlist |-> <<>>])
     IN IF acc.crashed
          THEN /\ pc' = "crashed"
               /\ UNCHANGED <<extract, hlist, action>>
        ELSE /\ pc' = "run"
             /\ extract' = acc.extract
             /\ hlist' \in Deduplicated(acc.hlist \o ArgEntries(args))
             /\ action' = Lower(action)
  /\ UNCHANGED <<opts, args, idx, attempted, logged>>
  /\ UNCHANGED libvars

\* line 184: an unknown mode prints the usage text and exits
Usage ==
  /\ pc = "run"
  /\ action \notin Modes
  /\ pc' = "exit"
  /\ UNCHANGED <<action, opts, args, extract, hlist, idx, attempted, logged>>
  /\ UNCHANGED libvars

\* what the try/except around one entry leaves behind
AfterEntry(e, c, out) ==
  /\ Record(c, out)
  /\ attempted' = Append(attempted, e)
  /\ idx' = idx + 1
  /\ logged' = IF out.ret.tag = "raise" THEN Append(logged, idx + 1) ELSE logged
  /\ pc' = IF out.ret.tag = "raise" /\ ~Caught(out.ret) THEN "crashed" ELSE "run"
  /\ UNCHANGED <<action, opts, args, extract, hlist>>

\* lines 159-163: one iteration of the check loop
CheckEntry ==
  /\ pc = "run"
  /\ action = <<"c", "h", "e", "c", "k">>
  /\ idx < Len(hlist)
  /\ \E chk \in CliCheckOutcomes \cup {NotIssued} :
       LET h == hlist[idx + 1]
           out == check(h, <<>>, environ, APIKEY, chk)
       IN /\ (chk = NotIssued) <=> (out.net = <<>>)
          /\ AfterEntry(h, [op |-> "check", h |-> h, apikey |-> <<>>, chk |-> chk],
                        [ret |-> out.ret, net |-> out.net, fs |-> fs])

\* lines 165-176: one iteration of the download loop
DownloadEntry ==
  /\ pc = "run"
  /\ action = <<"d", "o", "w", "n", "l", "o", "a", "d">>
  /\ idx < Len(hlist)
  /\ \E chk \in CliCheckOutcomes \cup {NotIssued},
        dl \in CliDlOutcomes \cup {NotIssued} :
       LET h == hlist[idx + 1]
           out == download(h, <<>>, extract, environ, APIKEY, fs, chk, dl)
       IN /\ (chk = NotIssued) <=> (out.net = <<>>)
          /\ (dl = NotIssued) <=> (Len(out.net) < 2)
          /\ AfterEntry(h, [op |-> "download", h |-> h, apikey |-> <<>>,
                            extract |-> extract, chk |-> chk, dl |-> dl,
                            again |-> FALSE], out)

\* lines 178-182: one iteration of the upload loop
UploadEntry ==
  /\ pc = "run"
  /\ action = <<"u", "p", "l", "o", "a", "d">>
  /\ idx < Len(hlist)
  /\ \E up \in UploadOutcomes \cup {NotIssued} :
       LET p == hlist[idx + 1]
           out == upload(p, <<>>, environ, APIKEY, fs, up)
       IN /\ (up = NotIssued) <=> (out.net = <<>>)
          /\ AfterEntry(p, [op |-> "upload", filepath |-> p, apikey |-> <<>>,
                            up |-> up], out)

\* the loop has taken every entry: the script ends
Finish ==
  /\ pc = "run"
  /\ action \in Modes
  /\ idx = Len(hlist)
  /\ pc' = "done"
  /\ UNCHANGED <<action, opts, args, extract, hlist, idx, attempted, logged>>
  /\ UNCHANGED libvars

NextCli ==
  \/ ParseArgs
  \/ Usage
  \/ CheckEntry
  \/ DownloadEntry
  \/ UploadEntry
  \/ Finish

\* the inputs of the parsing claims
Unset == [k \in {} |-> <<>>]

OptF(p) == [o |-> "-f", a |-> p]
OptX == [o |-> "-x", a |-> <<>>]
OptV == [o |-> "-v", a |-> <<>>]

ListLines ==
  {<<"#", " ", "c", "\n">>, <<" ", "\t", "\n">>, <<" ", "#", "a", "\n">>,
   <<"a", "\n">>, <<" ", "a", " ", "\n">>, <<"b">>, <<"a", ",", "b", "\n">>}

ArgLists == {<<>>, <<<<"b", ",">>>>, <<<<"a", ",", "b">>, <<"#", "a">>>>}

CheckMixedCase == <<"C", "h", "e", "c", "k">>
UnknownMode == <<"l", "i", "s", "t">>

\* check mode over every list file of at most MaxLines lines; the other
\* modes over one list file
InitParse ==
  \/ \E ls \in SeqsUpTo(ListLines, MaxLines) :
       StartCli({CheckMixedCase},
                {<<>>, <<OptF(<<"l">>)>>, <<OptF(<<"m">>)>>},
                ArgLists,
                {[JEBIO_APIKEY |-> <<"e">>]},
                {[q \in {<<"l">>} |-> Text(ls)]})
  \/ StartCli((Modes \cup {UnknownMode}) \ {Lower(CheckMixedCase)},
              {<<OptV, OptX, OptF(<<"l">>)>>},
              {<<<<"a", ",", "b">>>>},
              {Unset, [JEBIO_APIKEY |-> <<"e">>]},
              {[q \in {<<"l">>} |-> Text(<<<<"#", "b", "\n">>, <<"a", "\n">>>>)]})

SpecParse == InitParse /\ [][NextCli]_vars

\* the inputs of the batch claims
InitBatch ==
  StartCli(Modes \cup {UnknownMode},
           {<<>>, <<OptX>>},
           {<<<<"a", ",", "n">>>>, <<<<",", "a">>>>, <<<<"n">>, <<"a", ",", "b">>>>},
           {Unset, [JEBIO_APIKEY |-> <<"e">>]},
           {[q \in {<<"a">>} |-> Raw("c1")]})

SpecBatch == InitBatch /\ [][NextCli]_vars /\ WF_vars(NextCli)

----------------------------------------------------------------------------
(* Vocabulary of the claims: the last library call *)

IsDownload == call.op = "download"

\* the check request was answered with a decoded JSON value
CheckAnswered == IsDownload /\ call.chk.tag = "json"

\* the check result is absent/empty, or has a code that is not 0
CheckNotFound ==
  /\ CheckAnswered
  /\ \/ ~Truthy(call.chk.val)
     \/ "code" \in DOMAIN call.chk.val.obj /\ call.chk.val.obj.code # 0

\* the check result has code 0
CheckFound ==
  /\ CheckAnswered
  /\ Truthy(call.chk.val)
  /\ "code" \in DOMAIN call.chk.val.obj
  /\ call.chk.val.obj.code = 0

\* the check result carries a non-empty canonical hash
HasCanonical ==
  /\ CheckFound
  /\ "sha256hash" \in DOMAIN call.chk.val.obj
  /\ call.chk.val.obj.sha256hash # <<>>

h0OfCall == call.chk.val.obj.sha256hash

\* a file named exactly h0 existed at the call, its digest equal to h0 up to case
LocalCopyMatched ==
  /\ HasCanonical
  /\ h0OfCall \in DOMAIN fsBefore
  /\ \A i \in DOMAIN h0OfCall :
       LowerChar(sha256(fsBefore[h0OfCall])[i]) = LowerChar(h0OfCall[i])
  /\ Len(sha256(fsBefore[h0OfCall])) = Len(h0OfCall)

\* the download request was answered with a response
DlAnswered == IsDownload /\ call.dl.tag = "resp"

DlRequests == {i \in DOMAIN net : net[i].endpoint = "file/download"}

\* the paths whose content differs between the start and the end of the call
Changed ==
  {p \in DOMAIN fs \cup DOMAIN fsBefore :
     \/ p \notin DOMAIN fs
     \/ p \notin DOMAIN fsBefore
     \/ fs[p] # fsBefore[p]}

----------------------------------------------------------------------------
(* C1 *)

\* C1: when the check result is absent/empty or its code is not 0, download
\* returns None, the check request is the only request issued, and no local
\* file is written, extracted or deleted.
C1_NotFoundStopsAfterCheck ==
  CheckNotFound =>
    /\ ret = RetNone
    /\ Len(net) = 1
    /\ net[1].endpoint = "file/check"
    /\ fs = fsBefore

C1_Witness ==
  /\ CheckNotFound
  /\ Truthy(call.chk.val)
  /\ call.chk.val.obj.code = 1
  /\ "sha256hash" \notin DOMAIN call.chk.val.obj
  /\ DOMAIN fsBefore # {}

----------------------------------------------------------------------------
(* C2 *)

\* C2: when the check result has code 0 and canonical hash h0, and a local
\* file named exactly h0 has a SHA-256 digest equal to h0 up to case, download
\* returns the path h0, issues no download request and changes no file.
C2_ShortCircuit ==
  LocalCopyMatched =>
    /\ ret = RetPath(h0OfCall)
    /\ DlRequests = {}
    /\ Len(net) = 1
    /\ fs = fsBefore

\* C2 (idempotence): repeating the call in that state gives the same result
\* and leaves the file system unchanged.
C2_RepeatStep ==
  (LocalCopyMatched /\ call'.op = "download" /\ call'.again /\ ncalls' = ncalls + 1)
    => (ret' = ret /\ fs' = fs /\ net' = net)

\* C2: the short-circuit and its idempotence together
C2_Idempotent == []C2_ShortCircuit /\ [][C2_RepeatStep]_vars

\* the short-circuit taken on a canonical hash that differs from the digest in
\* case only, on a repeated call
C2_Witness ==
  /\ LocalCopyMatched
  /\ h0OfCall = <<"A">>
  /\ call.again
  /\ ret = RetPath(<<"A">>)

----------------------------------------------------------------------------
(* C3 *)

\* the download response is successful and non-empty
DlUsable == DlAnswered /\ call.dl.ok /\ call.dl.content # Raw("")

\* ... and the check result names a canonical hash h0
DlUsableWithHash == DlUsable /\ "sha256hash" \in DOMAIN call.chk.val.obj

\* extraction succeeds: the body is an archive with a first entry
Extractable ==
  /\ DlUsable
  /\ call.dl.content.kind = "zip"
  /\ call.dl.content.members # <<>>

\* the saved archive's path as the claims name it, <h0>.zip
ZipPathOfCall == Str(CanonicalHash(call.chk.val)) \o ZIP

\* the working-directory path the first listed entry is extracted to
FirstEntryPath == Target(call.dl.content.members[1].name)

\* C3: after a download whose check has code 0 and whose response is
\* successful and non-empty: with extract and a successful extraction the
\* returned path names the archive's first entry, that extracted file exists
\* and <h0>.zip no longer exists; without extract the returned path is
\* <h0>.zip and that file holds the response body.
C3_DownloadResult ==
  /\ (DlUsableWithHash /\ call.extract /\ Extractable) =>
       /\ ret = RetPath(call.dl.content.members[1].name)
       /\ isfile(fs, FirstEntryPath)
       /\ ~isfile(fs, ZipPathOfCall)
  /\ (DlUsableWithHash /\ ~call.extract) =>
       /\ ret = RetPath(ZipPathOfCall)
       /\ isfile(fs, ZipPathOfCall)
       /\ fs[ZipPathOfCall] = call.dl.content

----------------------------------------------------------------------------
(* C4 *)

\* the check result has code 0 and no canonical hash (missing or empty)
NoCanonical == CheckFound /\ ~HasCanonical

\* C4: when the check result has code 0 but no canonical hash, the download
\* request's h parameter is the hash the caller supplied, and on a successful
\* non-empty response the call returns a saved path.
C4_FallbackToSuppliedHash ==
  NoCanonical =>
    /\ DlRequests # {}
    /\ \A i \in DlRequests : net[i].h = call.h
    /\ DlUsable => ret.tag = "path"

----------------------------------------------------------------------------
(* C5 *)

IsGetApikey == call.op = "getApikey"

EnvKey == IF "JEBIO_APIKEY" \in DOMAIN environ THEN environ.JEBIO_APIKEY ELSE <<>>

\* the key the precedence rule names, <<>> when no source supplies one
RuleKey(explicit) ==
  IF explicit # <<>> THEN explicit
  ELSE IF EnvKey # <<>> THEN EnvKey
  ELSE APIKEY

\* C5: the resolver returns the explicit value if non-empty, else the
\* environment's value, else the configured default, fails when no source
\* supplies a key, and never returns an empty key.
C5_Precedence ==
  IsGetApikey =>
    /\ RuleKey(call.apikey) # <<>> => ret = RetStr(RuleKey(call.apikey))
    /\ RuleKey(call.apikey) = <<>> => ret.tag = "raise"
    /\ ret.tag = "str" => ret.v # <<>>

----------------------------------------------------------------------------
(* C6 *)

\* C6: when no source supplies a key, check, download and upload each fail
\* with an error, having issued no request and written no file.
C6_NoKeyNoRequest ==
  (call.op \in {"check", "download", "upload"} /\ RuleKey(call.apikey) = <<>>) =>
    /\ ret.tag = "raise"
    /\ net = <<>>
    /\ fs = fsBefore

----------------------------------------------------------------------------
(* C9 *)

\* C9: when the download request is answered by a response that is not ok or
\* has an empty body, download returns None and the working directory is as
\* it was: no <h0>.zip is created or overwritten and no file is deleted.
C9_UnusableResponse ==
  (DlAnswered /\ (~call.dl.ok \/ call.dl.content = Raw(""))) =>
    /\ ret = RetNone
    /\ fs = fsBefore

\* an error response with a body, while an older <h0>.zip is on disk
C9_Witness ==
  /\ DlAnswered
  /\ ~call.dl.ok
  /\ call.dl.content # Raw("")
  /\ HasCanonical
  /\ isfile(fsBefore, h0OfCall \o ZIP)
  /\ ret = RetNone

----------------------------------------------------------------------------
(* C10 *)

\* C10: on a download with extract, only the archive's first listed entry is
\* extracted: the one file extraction adds is the file whose path is returned.
C10_OnlyFirstEntry ==
  (DlUsable /\ call.extract /\ Extractable /\ ret.tag = "path") =>
    \A p \in Changed :
      \/ p = Target(ret.path)
      \/ p = ZipPathOfCall /\ p \notin DOMAIN fs

----------------------------------------------------------------------------
(* C7 *)

\* C7: in every mode, whatever entries fail, the batch loop goes on to
\* attempt every entry of the list in sequence and then ends: a failure on
\* one entry never aborts or skips the entries after it.
C7_AllAttempted ==
  (pc = "run" /\ action \in Modes) ~> (pc = "done" /\ attempted = hlist)

\* upload mode: the first entry failed and was logged, the entries after it
\* were still attempted
C7_Witness ==
  /\ pc = "done"
  /\ action = <<"u", "p", "l", "o", "a", "d">>
  /\ Len(hlist) >= 2
  /\ 1 \in Range(logged)
  /\ attempted = hlist

----------------------------------------------------------------------------
(* C8 *)

\* the lines of the list files the options name
ListFileLines ==
  UNION {Range(fs[opts[i].a].lines) :
           i \in {j \in DOMAIN opts : opts[j].o = "-f" /\ isfile(fs, opts[j].a)}}

Blank(l) == \A i \in DOMAIN l : IsSpace(l[i])

Comment(l) ==
  \E i \in DOMAIN l : l[i] = "#" /\ \A j \in 1..(i - 1) : IsSpace(l[j])

\* the pieces of a positional argument between its commas
Pieces(a) ==
  {SubSeq(a, i, j) : <<i, j>> \in
     {<<i, j>> \in (1..(Len(a) + 1)) \X (0..Len(a)) :
        /\ i <= j + 1
        /\ \A k \in i..j : a[k] # ","
        /\ i = 1 \/ a[i - 1] = ","
        /\ j = Len(a) \/ a[j + 1] = ","}}

ExpectedEntries ==
  {strip(l) : l \in {m \in ListFileLines : ~Blank(m) /\ ~Comment(m)}}
  \cup UNION {Pieces(args[i]) : i \in DOMAIN args}

\* C8: the script processes exactly the distinct entries formed by the
\* stripped lines of the list file that are neither blank nor comments,
\* merged with the comma-split positional arguments, each exactly once.
C8_ExactlyTheDistinctEntries ==
  /\ pc \in {"run", "done"} =>
       /\ \A i \in DOMAIN attempted : attempted[i] \in ExpectedEntries
       /\ \A i, j \in DOMAIN attempted : attempted[i] = attempted[j] => i = j
  /\ (pc = "done") => Range(attempted) = ExpectedEntries

\* a list file with a comment line, and an entry given both in the file and
\* as a positional argument, once the run has ended
C8_Witness ==
  /\ pc = "done"
  /\ \E l \in ListFileLines : Comment(l)
  /\ \E l \in ListFileLines : strip(l) = <<"a">>
  /\ \E i \in DOMAIN args : <<"a">> \in Pieces(args[i])
  /\ Len(attempted) = 2

====
